---- MODULE Spec2Model ----
(***************************************************************************)
(* A model of the newrelic_synthetics_private_location resource            *)
(* (newrelic/resource_newrelic_synthetics_private_location.go), of the     *)
(* request authorizers of the API client (package http) and of the data    *)
(* partition rule scenario exercised by                                    *)
(* newrelic/resource_newrelic_data_partition_test.go.                      *)
(*                                                                         *)
(* Three specifications share the module:                                  *)
(*   Spec     - one private location resource driven through Create, Read, *)
(*              Update, Delete and Import against the remote service;      *)
(*   SpecAuth - one request authorized by one of the four authorizers;     *)
(*   SpecDP   - an apply of two data partition rules.                      *)
(***************************************************************************)
EXTENDS Naturals, Sequences, FiniteSets

VARIABLES
    remote,     \* the service: GUID -> the private location stored, or NoEntity
    d,          \* the schema.ResourceData of the private location
    prev,       \* d as it was handed to the last operation
    lastOp,     \* the last operation run on the resource
    lastRes,    \* what the API call of the last operation returned
    diags,      \* the diag.Diagnostics the last operation returned
    requests,   \* the API requests the last operation issued
    held,       \* while an import and its read run: the state held before
    origin,     \* how the state in d came to be: "none", "create" or "import"
    refreshed,  \* TRUE when d went through a successful Read since it was written
    c,          \* config.Config of the client: the three API keys
    r0,         \* the headers of the request before it is authorized
    r,          \* the headers of the request
    authorizer, \* the authorizer that has run on r, or "none"
    dpConfig,   \* the two data partition rules of the configuration
    dpRules,    \* the service: the data partition rules that exist
    dpState,    \* the Terraform state: resource -> whether its create ran,
                \*                               and the ID it got ("": none)
    dpDiags     \* resource -> the diagnostics its create returned

plVars   == <<remote, d, prev, lastOp, lastRes, diags, requests, held,
              origin, refreshed>>
authVars == <<c, r0, r, authorizer>>
dpVars   == <<dpConfig, dpRules, dpState, dpDiags>>
vars     == <<plVars, authVars, dpVars>>

(***************************************************************************)
(* Bounds.                                                                 *)
(***************************************************************************)
MaxGuids == 2      \* GUIDs the service can hand out
MaxErrors == 2     \* errors a response lists at most
MaxKeys == 2       \* distinct non-empty API key values
MaxPartitions == 3 \* distinct target_data_partition names

GUIDPool     == <<"guid-1", "guid-2", "guid-3", "guid-4">>
DomainPool   == <<"domain-1", "domain-2", "domain-3", "domain-4">>
KeyPool      == <<"plkey-1", "plkey-2", "plkey-3", "plkey-4">>
LocationPool == <<"loc-1", "loc-2", "loc-3", "loc-4">>
GUIDs        == {GUIDPool[i] : i \in 1..MaxGuids}

Descriptions == {"desc-a", "desc-b"}
Names        == {"pl-a"}
ErrorDescriptions == {"BAD_REQUEST", "UNAUTHORIZED"}

(***************************************************************************)
(* Values of the Go program.                                               *)
(***************************************************************************)
NoErr       == "<nil>"                 \* err == nil
ErrNotFound == "errors.NotFound"       \* an error of type *errors.NotFound
ErrOther    == "errors.Unexpected"     \* any other error
SeverityError == "Error"               \* diag.Error

\* What an API call returns: (res, err). isNil: res == nil. The fields of res
\* are the ones the handlers read.
Result(err, isNil, errors, guid, domainId, key, locationId, entityType, name) ==
    [err |-> err, isNil |-> isNil, Errors |-> errors, GUID |-> guid,
     DomainId |-> domainId, Key |-> key, LocationId |-> locationId,
     entityType |-> entityType, Name |-> name]

NoResult == Result(NoErr, TRUE, <<>>, "", "", "", "", "", "")
Failed(err) == Result(err, TRUE, <<>>, "", "", "", "", "", "")
WithErrors(errors) == Result(NoErr, FALSE, errors, "", "", "", "", "", "")

\* The schema of the resource: every attribute at its zero value, no ID.
EmptyResourceData ==
    [id |-> "", account_id |-> 0, description |-> "", name |-> "",
     verified_script_execution |-> FALSE, domain_id |-> "", guid |-> "",
     key |-> "", location_id |-> ""]

\* The account of the provider configuration and the ones a resource block
\* can name (0: the block does not set account_id).
ProviderAccountID == 1
ConfigAccountIDs  == {0, 2}

\* The configurations of a private location block: the Required attributes
\* and the Optional account_id.
Configs ==
    [account_id : ConfigAccountIDs, description : Descriptions, name : Names,
     verified_script_execution : BOOLEAN]

\* selectAccountID: the resource's account_id when set, else the provider's.
selectAccountID(rd) ==
    IF rd.account_id # 0 THEN rd.account_id ELSE ProviderAccountID

\* diag.FromErr(err): one Error diagnostic carrying the error.
FromErr(err) == << [Severity |-> SeverityError, Summary |-> err] >>

\* The loop over res.Errors: one Error diagnostic per listed error.
ErrorDiagnostics(errors) ==
    [i \in 1..Len(errors) |-> [Severity |-> SeverityError, Summary |-> errors[i]]]

(***************************************************************************)
(* The remote service, as far as the handlers see it. A call fails as a    *)
(* whole (err), or returns a response that lists errors, or succeeds; only *)
(* a success changes what the service stores. The service creates under a  *)
(* GUID it has not used, and updates or deletes only what it stores.       *)
(***************************************************************************)
IndexOf(guid) == CHOOSE i \in 1..Len(GUIDPool) : GUIDPool[i] = guid

ErrorLists ==
    UNION {[1..n -> ErrorDescriptions] : n \in 1..MaxErrors}

Outcome(res, rem) == [res |-> res, remote |-> rem]

Rejections(rem) ==
    {Outcome(Failed(ErrOther), rem)}
        \cup {Outcome(WithErrors(errors), rem) : errors \in ErrorLists}

\* SyntheticsCreatePrivateLocationWithContext(ctx, accountID, description,
\* name, verifiedScriptExecution)
CreateOutcomes(rem, req) ==
    Rejections(rem) \cup
    {Outcome(Result(NoErr, FALSE, <<>>, guid, DomainPool[IndexOf(guid)],
                    KeyPool[IndexOf(guid)], LocationPool[IndexOf(guid)], "", ""),
             [g \in DOMAIN rem \cup {guid} |->
                 IF g = guid
                 THEN [name |-> req.name, description |-> req.description,
                       verifiedScriptExecution |-> req.verifiedScriptExecution]
                 ELSE rem[g]])
        : guid \in GUIDs \ DOMAIN rem}

\* Entities.GetEntity(guid)
GetEntityOutcomes(rem, req) ==
    {Outcome(Failed(ErrOther), rem)} \cup
    IF req.guid \in DOMAIN rem
    THEN {Outcome(Result(NoErr, FALSE, <<>>, req.guid, "", "", "",
                         "GenericEntityOutline", rem[req.guid].name), rem)}
    ELSE {Outcome(Failed(ErrNotFound), rem),
          Outcome(Result(NoErr, FALSE, <<>>, "", "", "", "", "OtherEntity", ""), rem)}

\* SyntheticsUpdatePrivateLocation(description, guid, verifiedScriptExecution)
UpdateOutcomes(rem, req) ==
    Rejections(rem) \cup
    IF req.guid \in DOMAIN rem
    THEN {Outcome(Result(NoErr, FALSE, <<>>, req.guid, "", "", "", "", ""),
                  [rem EXCEPT ![req.guid].description = req.description,
                              ![req.guid].verifiedScriptExecution =
                                  req.verifiedScriptExecution])}
    ELSE {}

\* SyntheticsDeletePrivateLocationWithContext(ctx, guid)
DeleteOutcomes(rem, req) ==
    Rejections(rem) \cup
    IF req.guid \in DOMAIN rem
    THEN {Outcome(res, [g \in DOMAIN rem \ {req.guid} |-> rem[g]])
            : res \in {NoResult, Result(NoErr, FALSE, <<>>, "", "", "", "", "", "")}}
    ELSE {}

(***************************************************************************)
(* The handlers. Each takes the ResourceData it is called with and what    *)
(* its API call returned, and gives the ResourceData it leaves, the        *)
(* diagnostics it returns and the API calls it made.                       *)
(***************************************************************************)
Request(api, accountID, description, guid, name, verifiedScriptExecution) ==
    [api |-> api, accountID |-> accountID, description |-> description,
     guid |-> guid, name |-> name,
     verifiedScriptExecution |-> verifiedScriptExecution]

Return(rd, ds, calls) == [d |-> rd, diags |-> ds, calls |-> calls]

CreateRequest(rd) ==
    Request("SyntheticsCreatePrivateLocation", selectAccountID(rd),
            rd.description, "", rd.name, rd.verified_script_execution)

\* Mutants of Create: the ID taken from the wrong field of the response, and
\* a failed call issued a second time.
CreateSettingLocationIdAsId(rd, res) ==
    LET calls == <<CreateRequest(rd)>> IN
    IF res.err # NoErr THEN Return(rd, FromErr(res.err), calls)
    ELSE IF Len(ErrorDiagnostics(res.Errors)) > 0
         THEN Return(rd, ErrorDiagnostics(res.Errors), calls)
         ELSE Return([rd EXCEPT !.id = res.LocationId, !.domain_id = res.DomainId,
                                !.key = res.Key, !.location_id = res.LocationId,
                                !.guid = res.GUID],
                     <<>>, calls)

CreateRetrying(rd, res) ==
    LET calls == <<CreateRequest(rd)>> IN
    IF res.err # NoErr THEN Return(rd, FromErr(res.err), calls \o calls)
    ELSE IF Len(ErrorDiagnostics(res.Errors)) > 0
         THEN Return(rd, ErrorDiagnostics(res.Errors), calls)
         ELSE Return([rd EXCEPT !.id = res.GUID, !.domain_id = res.DomainId,
                                !.key = res.Key, !.location_id = res.LocationId,
                                !.guid = res.GUID],
                     <<>>, calls)

resourceNewRelicSyntheticsPrivateLocationCreate(rd, res) ==
    LET calls == <<CreateRequest(rd)>> IN
    IF res.err # NoErr THEN Return(rd, FromErr(res.err), calls)
    ELSE IF Len(ErrorDiagnostics(res.Errors)) > 0
         THEN Return(rd, ErrorDiagnostics(res.Errors), calls)
         ELSE Return([rd EXCEPT !.id = res.GUID, !.domain_id = res.DomainId,
                                !.key = res.Key, !.location_id = res.LocationId,
                                !.guid = res.GUID],
                     <<>>, calls)

ReadRequest(rd) == Request("GetEntity", 0, "", rd.id, "", FALSE)

setCommonSyntheticsPrivateLocationAttributes(v, rd) ==
    IF v.entityType = "GenericEntityOutline"
    THEN [rd EXCEPT !.guid = v.GUID, !.name = v.Name]
    ELSE rd

\* Mutant of Read: NotFound handled like any other error.
ReadReportingNotFound(rd, res) ==
    LET calls == <<ReadRequest(rd)>> IN
    IF res.err # NoErr
    THEN Return(rd, FromErr(res.err), calls)
    ELSE Return(setCommonSyntheticsPrivateLocationAttributes(res, rd), <<>>, calls)

resourceNewRelicSyntheticsPrivateLocationRead(rd, res) ==
    LET calls == <<ReadRequest(rd)>> IN
    IF res.err # NoErr
    THEN IF res.err = ErrNotFound
         THEN Return([rd EXCEPT !.id = ""], <<>>, calls)
         ELSE Return(rd, FromErr(res.err), calls)
    ELSE Return(setCommonSyntheticsPrivateLocationAttributes(res, rd), <<>>, calls)

\* Mutant of the update call: name passed where description belongs.
UpdateRequestPassingName(rd) ==
    Request("SyntheticsUpdatePrivateLocation", 0, rd.name, rd.id, "",
            rd.verified_script_execution)

UpdateRequest(rd) ==
    Request("SyntheticsUpdatePrivateLocation", 0, rd.description, rd.id, "",
            rd.verified_script_execution)

resourceNewRelicSyntheticsPrivateLocationUpdate(rd, res) ==
    LET calls == <<UpdateRequest(rd)>> IN
    IF res.err # NoErr THEN Return(rd, FromErr(res.err), calls)
    ELSE IF Len(ErrorDiagnostics(res.Errors)) > 0
         THEN Return(rd, ErrorDiagnostics(res.Errors), calls)
         ELSE Return(rd, <<>>, calls)

DeleteRequest(rd) ==
    Request("SyntheticsDeletePrivateLocation", 0, "", rd.id, "", FALSE)

\* Mutants of Delete: the errors of the response not looked at; the ID
\* cleared before the errors are looked at; the ID never cleared.
DeleteIgnoringResponseErrors(rd, res) ==
    LET calls == <<DeleteRequest(rd)>> IN
    IF res.err # NoErr THEN Return(rd, FromErr(res.err), calls)
    ELSE Return([rd EXCEPT !.id = ""], <<>>, calls)

DeleteClearingIdFirst(rd, res) ==
    LET calls == <<DeleteRequest(rd)>>
        ds == IF res.isNil THEN <<>> ELSE ErrorDiagnostics(res.Errors)
    IN
    IF res.err # NoErr THEN Return(rd, FromErr(res.err), calls)
    ELSE IF Len(ds) > 0
         THEN Return([rd EXCEPT !.id = ""], ds, calls)
         ELSE Return([rd EXCEPT !.id = ""], <<>>, calls)

DeleteKeepingId(rd, res) ==
    LET calls == <<DeleteRequest(rd)>>
        ds == IF res.isNil THEN <<>> ELSE ErrorDiagnostics(res.Errors)
    IN
    IF res.err # NoErr THEN Return(rd, FromErr(res.err), calls)
    ELSE IF Len(ds) > 0
         THEN Return(rd, ds, calls)
         ELSE Return(rd, <<>>, calls)

resourceNewRelicSyntheticsPrivateLocationDelete(rd, res) ==
    LET calls == <<DeleteRequest(rd)>>
        ds == IF res.isNil THEN <<>> ELSE ErrorDiagnostics(res.Errors)
    IN
    IF res.err # NoErr THEN Return(rd, FromErr(res.err), calls)
    ELSE IF Len(ds) > 0
         THEN Return(rd, ds, calls)
         ELSE Return([rd EXCEPT !.id = ""], <<>>, calls)

\* schema.ImportStatePassthroughContext: the ResourceData the importer is
\* handed holds the ID given on import and nothing else; it is passed on.
ImportStatePassthroughContext(id) == [EmptyResourceData EXCEPT !.id = id]

(***************************************************************************)
(* The private location resource: one action per operation Terraform runs  *)
(* on it. Terraform hands Create a ResourceData built from the             *)
(* configuration, Update the state with the configuration's values laid    *)
(* over it, and Read and Delete the state; it runs Create only on a        *)
(* resource without an ID and the others only on one with an ID, and after *)
(* an import it reads the resource before anything else. An import is of   *)
(* the resource's own ID when the state holds the resource (the state is   *)
(* rebuilt from the service), and of any ID when it does not.              *)
(***************************************************************************)
Planned(cfg) ==
    [EmptyResourceData EXCEPT !.account_id = cfg.account_id,
                              !.description = cfg.description,
                              !.name = cfg.name,
                              !.verified_script_execution =
                                  cfg.verified_script_execution]

Changed(rd, cfg) ==
    [rd EXCEPT !.account_id =
                   IF cfg.account_id # 0 THEN cfg.account_id ELSE rd.account_id,
               !.description = cfg.description,
               !.verified_script_execution = cfg.verified_script_execution]

NoHeld ==
    [importing |-> FALSE, d |-> EmptyResourceData, origin |-> "none",
     refreshed |-> FALSE]

Ran(op, rd, out, ret) ==
    /\ lastOp' = op
    /\ held' = IF lastOp = "Import" THEN held ELSE NoHeld
    /\ prev' = rd
    /\ lastRes' = out.res
    /\ remote' = out.remote
    /\ d' = ret.d
    /\ diags' = ret.diags
    /\ requests' = ret.calls

InitPL ==
    /\ remote = << >>
    /\ d = EmptyResourceData
    /\ prev = EmptyResourceData
    /\ lastOp = "none"
    /\ lastRes = NoResult
    /\ diags = << >>
    /\ requests = << >>
    /\ held = NoHeld
    /\ origin = "none"
    /\ refreshed = FALSE

Create ==
    /\ lastOp # "Import"
    /\ d.id = ""
    /\ \E cfg \in Configs :
         LET rd == Planned(cfg) IN
         \E out \in CreateOutcomes(remote, CreateRequest(rd)) :
            LET ret == resourceNewRelicSyntheticsPrivateLocationCreate(rd, out.res) IN
            /\ Ran("Create", rd, out, ret)
            /\ origin' = IF ret.d.id # "" THEN "create" ELSE "none"
            /\ refreshed' = FALSE

Read ==
    /\ d.id # ""
    /\ \E out \in GetEntityOutcomes(remote, ReadRequest(d)) :
         LET ret == resourceNewRelicSyntheticsPrivateLocationRead(d, out.res) IN
         /\ Ran("Read", d, out, ret)
         /\ origin' = IF ret.d.id # "" THEN origin ELSE "none"
         /\ refreshed' = IF ret.d.id = "" THEN FALSE
                         ELSE IF ret.diags = << >> THEN TRUE ELSE refreshed

Update ==
    /\ lastOp # "Import"
    /\ d.id # ""
    /\ \E cfg \in Configs :
         LET rd == Changed(d, cfg) IN
         /\ rd # d
         /\ \E out \in UpdateOutcomes(remote, UpdateRequest(rd)) :
              LET ret == resourceNewRelicSyntheticsPrivateLocationUpdate(rd, out.res) IN
              /\ Ran("Update", rd, out, ret)
              /\ refreshed' = FALSE
    /\ UNCHANGED origin

Delete ==
    /\ lastOp # "Import"
    /\ d.id # ""
    /\ \E out \in DeleteOutcomes(remote, DeleteRequest(d)) :
         LET ret == resourceNewRelicSyntheticsPrivateLocationDelete(d, out.res) IN
         /\ Ran("Delete", d, out, ret)
         /\ origin' = IF ret.d.id # "" THEN origin ELSE "none"
         /\ refreshed' = IF ret.d.id # "" THEN refreshed ELSE FALSE

Import ==
    /\ lastOp # "Import"
    /\ \E id \in GUIDs :
         /\ d.id # "" => id = d.id
         /\ d' = ImportStatePassthroughContext(id)
         /\ prev' = ImportStatePassthroughContext(id)
    /\ held' = [importing |-> TRUE, d |-> d, origin |-> origin,
                refreshed |-> refreshed]
    /\ origin' = "import"
    /\ refreshed' = FALSE
    /\ lastOp' = "Import"
    /\ lastRes' = NoResult
    /\ diags' = << >>
    /\ requests' = << >>
    /\ UNCHANGED remote

(***************************************************************************)
(* The request authorizers. A request is its headers: a function from the  *)
(* names of the headers set to their values.                               *)
(***************************************************************************)
APIKeyPool == <<"key-1", "key-2", "key-3", "key-4">>
KeyValues  == {""} \cup {APIKeyPool[i] : i \in 1..MaxKeys}

NoHeaders == [h \in {} |-> ""]
InitialHeaders ==
    {NoHeaders,
     [h \in {"Content-Type"} |-> "application/json"],
     [h \in {"Content-Type", "User-Agent"} |->
         IF h = "Content-Type" THEN "application/json" ELSE "newrelic/client"]}

\* r.SetHeader(key, value)
SetHeader(req, key, value) ==
    [h \in DOMAIN req \cup {key} |-> IF h = key THEN value ELSE req[h]]

NerdGraphAuthorizer(req, cfg) ==
    SetHeader(req, "Api-Key", cfg.PersonalAPIKey)

\* Mutant: the admin key sent along with the personal key.
PersonalAPIKeyCapableV2SendingBoth(req, cfg) ==
    IF cfg.PersonalAPIKey # ""
    THEN SetHeader(SetHeader(SetHeader(req, "Api-Key", cfg.PersonalAPIKey),
                             "Auth-Type", "User-Api-Key"),
                   "X-Api-Key", cfg.AdminAPIKey)
    ELSE SetHeader(req, "X-Api-Key", cfg.AdminAPIKey)

PersonalAPIKeyCapableV2Authorizer(req, cfg) ==
    IF cfg.PersonalAPIKey # ""
    THEN SetHeader(SetHeader(req, "Api-Key", cfg.PersonalAPIKey),
                   "Auth-Type", "User-Api-Key")
    ELSE SetHeader(req, "X-Api-Key", cfg.AdminAPIKey)

ClassicV2Authorizer(req, cfg) ==
    SetHeader(req, "X-Api-Key", cfg.AdminAPIKey)

InsightsInsertKeyAuthorizer(req, cfg) ==
    SetHeader(req, "X-Insert-Key", cfg.InsightsInsertKey)

AuthIdle ==
    /\ c = [PersonalAPIKey |-> "", AdminAPIKey |-> "", InsightsInsertKey |-> ""]
    /\ r0 = NoHeaders
    /\ r = NoHeaders
    /\ authorizer = "none"

AuthInit ==
    /\ c \in [PersonalAPIKey : KeyValues, AdminAPIKey : KeyValues,
              InsightsInsertKey : KeyValues]
    /\ r0 \in InitialHeaders
    /\ r = r0
    /\ authorizer = "none"

Authorized(by, req) ==
    /\ authorizer = "none"
    /\ authorizer' = by
    /\ r' = req
    /\ UNCHANGED <<c, r0>>

AuthorizeNerdGraph ==
    Authorized("NerdGraph", NerdGraphAuthorizer(r, c))

AuthorizePersonalAPIKeyCapableV2 ==
    Authorized("PersonalAPIKeyCapableV2", PersonalAPIKeyCapableV2Authorizer(r, c))

AuthorizeClassicV2 ==
    Authorized("ClassicV2", ClassicV2Authorizer(r, c))

AuthorizeInsightsInsertKey ==
    Authorized("InsightsInsertKey", InsightsInsertKeyAuthorizer(r, c))

(***************************************************************************)
(* The data partition rules of the acceptance tests: a configuration of    *)
(* two rules, foo and bar, applied by creating each once, in either order. *)
(* The service refuses a rule whose target_data_partition an existing rule *)
(* of the account already has.                                             *)
(***************************************************************************)
DPResources == {"foo", "bar"}
PartitionPool == <<"Log_Test_a", "Log_Test_b", "Log_Test_c", "Log_Test_d">>
Partitions == {PartitionPool[i] : i \in 1..MaxPartitions}
DPAccounts == {1, 2}
RuleIDs == {"rule-1", "rule-2"}
DuplicateName == "DUPLICATE_DATA_PARTITION_RULE_NAME"

DPIdle ==
    /\ dpConfig = [res \in DPResources |->
                     [account_id |-> 1, target_data_partition |-> PartitionPool[1]]]
    /\ dpRules = {}
    /\ dpState = [res \in DPResources |-> [applied |-> FALSE, id |-> ""]]
    /\ dpDiags = [res \in DPResources |-> << >>]

DPInit ==
    /\ dpConfig \in [DPResources ->
                       [account_id : DPAccounts, target_data_partition : Partitions]]
    /\ dpRules = {}
    /\ dpState = [res \in DPResources |-> [applied |-> FALSE, id |-> ""]]
    /\ dpDiags = [res \in DPResources |-> << >>]

\* Mutant: the service never finds a name taken.
DPCreateOutcomesWithoutNameCheck(rules, rule) ==
    {[Errors |-> << >>, id |-> id,
      rules |-> rules \cup {[id |-> id, account_id |-> rule.account_id,
                             target_data_partition |-> rule.target_data_partition]}]
        : id \in RuleIDs \ {e.id : e \in rules}}

\* The service's answer to the creation of a rule: the errors it lists and
\* the rules it holds afterwards.
DPCreateOutcomes(rules, rule) ==
    IF \E e \in rules : /\ e.account_id = rule.account_id
                        /\ e.target_data_partition = rule.target_data_partition
    THEN {[Errors |-> <<DuplicateName>>, id |-> "", rules |-> rules]}
    ELSE {[Errors |-> << >>, id |-> id,
           rules |-> rules \cup {[id |-> id, account_id |-> rule.account_id,
                                  target_data_partition |->
                                      rule.target_data_partition]}]
            : id \in RuleIDs \ {e.id : e \in rules}}

\* The create of the data partition rule resource: the errors of the
\* response become diagnostics, and without any the ID is set.
resourceNewRelicDataPartitionRuleCreate(res, out) ==
    IF Len(out.Errors) > 0
    THEN [id |-> "", diags |-> ErrorDiagnostics(out.Errors)]
    ELSE [id |-> out.id, diags |-> << >>]

DPCreate(res) ==
    /\ ~dpState[res].applied
    /\ \E out \in DPCreateOutcomes(dpRules, dpConfig[res]) :
         LET ret == resourceNewRelicDataPartitionRuleCreate(res, out) IN
         /\ dpRules' = out.rules
         /\ dpState' = [dpState EXCEPT ![res] = [applied |-> TRUE, id |-> ret.id]]
         /\ dpDiags' = [dpDiags EXCEPT ![res] = ret.diags]
    /\ UNCHANGED dpConfig

CreateFoo == DPCreate("foo")
CreateBar == DPCreate("bar")

Init == InitPL /\ AuthIdle /\ DPIdle

Next ==
    \/ Create /\ UNCHANGED <<authVars, dpVars>>
    \/ Read /\ UNCHANGED <<authVars, dpVars>>
    \/ Update /\ UNCHANGED <<authVars, dpVars>>
    \/ Delete /\ UNCHANGED <<authVars, dpVars>>
    \/ Import /\ UNCHANGED <<authVars, dpVars>>

Spec == Init /\ [][Next]_vars

InitAuth == InitPL /\ AuthInit /\ DPIdle

NextAuth ==
    \/ AuthorizeNerdGraph /\ UNCHANGED <<plVars, dpVars>>
    \/ AuthorizePersonalAPIKeyCapableV2 /\ UNCHANGED <<plVars, dpVars>>
    \/ AuthorizeClassicV2 /\ UNCHANGED <<plVars, dpVars>>
    \/ AuthorizeInsightsInsertKey /\ UNCHANGED <<plVars, dpVars>>

SpecAuth == InitAuth /\ [][NextAuth]_vars

InitDP == InitPL /\ AuthIdle /\ DPInit

NextDP ==
    \/ CreateFoo /\ UNCHANGED <<plVars, authVars>>
    \/ CreateBar /\ UNCHANGED <<plVars, authVars>>

SpecDP == InitDP /\ [][NextDP]_vars

(***************************************************************************)
(* The claims.                                                             *)
(***************************************************************************)
Operations == {"Create", "Read", "Update", "Delete"}
AllErrorSeverity(ds) == \A i \in 1..Len(ds) : ds[i].Severity = "Error"
Succeeded == diags = << >>

\* C1: Create, Update and Delete return a non-empty list of Error
\* diagnostics whenever the API call returned an error or its response lists
\* errors (one diagnostic per listed error, with its description as summary),
\* and return no diagnostics only when the call returned no error and the
\* response lists none.
C1_ErrorsBecomeDiagnostics ==
    lastOp \in {"Create", "Update", "Delete"} =>
        /\ (lastRes.err # NoErr \/ Len(lastRes.Errors) > 0) =>
              Len(diags) > 0 /\ AllErrorSeverity(diags)
        /\ (lastRes.err = NoErr /\ Len(lastRes.Errors) > 0) =>
              /\ Len(diags) = Len(lastRes.Errors)
              /\ \A i \in 1..Len(diags) : diags[i].Summary = lastRes.Errors[i]
        /\ Succeeded => lastRes.err = NoErr /\ Len(lastRes.Errors) = 0

C1_Witness ==
    /\ lastOp = "Delete"
    /\ lastRes.err = NoErr
    /\ lastRes.Errors = <<"UNAUTHORIZED", "BAD_REQUEST">>
    /\ Len(diags) = 2

\* C4: after a successful Create the ID is non-empty, is the GUID the
\* service assigned, and the service holds an object under it.
C4_CreatedHasServiceId ==
    (lastOp = "Create" /\ Succeeded) =>
        /\ d.id # ""
        /\ d.id = lastRes.GUID
        /\ d.id \in DOMAIN remote

C4_Witness ==
    /\ lastOp = "Create"
    /\ Succeeded
    /\ lastRes.GUID = "guid-2"
    /\ d.id = "guid-2"

\* C5: after a successful Update the object the service holds under the
\* resource's ID has the configured description and
\* verified_script_execution, and it is still there.
C5_UpdateReflected ==
    (lastOp = "Update" /\ Succeeded) =>
        /\ d.id \in DOMAIN remote
        /\ remote[d.id].description = prev.description
        /\ remote[d.id].verifiedScriptExecution = prev.verified_script_execution

C5_Witness ==
    /\ lastOp = "Update"
    /\ Succeeded
    /\ d.id \in DOMAIN remote
    /\ remote[d.id].description = "desc-b"
    /\ remote[d.id].verifiedScriptExecution

\* C6: after a successful Delete the service no longer holds an object under
\* the former ID, and the ID in state is empty.
C6_DeletedIsGone ==
    (lastOp = "Delete" /\ Succeeded) =>
        /\ prev.id \notin DOMAIN remote
        /\ d.id = ""

C6_Witness ==
    /\ lastOp = "Delete"
    /\ Succeeded
    /\ prev.id = "guid-1"
    /\ d.id = ""

\* C8: every Create, Read, Update and Delete issues exactly one API request,
\* the one of its operation, whether the request succeeds or fails.
C8_OneRequestPerOperation ==
    lastOp \in Operations =>
        /\ Len(requests) = 1
        /\ requests[1].api =
              CASE lastOp = "Create" -> "SyntheticsCreatePrivateLocation"
                [] lastOp = "Read" -> "GetEntity"
                [] lastOp = "Update" -> "SyntheticsUpdatePrivateLocation"
                [] lastOp = "Delete" -> "SyntheticsDeletePrivateLocation"

C8_Witness ==
    /\ lastOp = "Create"
    /\ lastRes.err # NoErr
    /\ Len(diags) > 0
    /\ Len(requests) = 1

\* C9: a Read whose lookup fails with NotFound clears the ID and returns no
\* diagnostics; a Read whose lookup fails with another error returns an Error
\* diagnostic and leaves the ID and every attribute as they were.
C9_ReadFailure ==
    lastOp = "Read" =>
        /\ lastRes.err = ErrNotFound => d.id = "" /\ Succeeded
        /\ lastRes.err \notin {NoErr, ErrNotFound} =>
              /\ Len(diags) > 0
              /\ AllErrorSeverity(diags)
              /\ d = prev

C9_Witness ==
    /\ lastOp = "Read"
    /\ lastRes.err = ErrNotFound
    /\ prev.id = "guid-1"
    /\ d.id = ""

\* C10: the ID changes only by a successful Create (to the GUID returned), a
\* successful Delete (to empty) and a Read that gets NotFound (to empty);
\* Update, a successful Read and every operation that returns diagnostics
\* leave it as it was, a failed Create sets none of domain_id, key,
\* location_id and guid, and a failed Delete keeps the ID.
C10_IdFrame ==
    lastOp \in Operations =>
        /\ d.id # prev.id =>
              \/ lastOp = "Create" /\ Succeeded /\ d.id = lastRes.GUID
              \/ lastOp = "Delete" /\ Succeeded /\ d.id = ""
              \/ lastOp = "Read" /\ lastRes.err = ErrNotFound /\ d.id = ""
        /\ (lastOp = "Create" /\ Succeeded) => d.id = lastRes.GUID
        /\ (lastOp = "Delete" /\ Succeeded) => d.id = ""
        /\ (lastOp = "Read" /\ lastRes.err = ErrNotFound) => d.id = ""
        /\ lastOp = "Update" => d.id = prev.id
        /\ (lastOp = "Read" /\ lastRes.err = NoErr) => d.id = prev.id
        /\ ~Succeeded => d.id = prev.id
        /\ (lastOp = "Create" /\ ~Succeeded) =>
              /\ d.id = ""
              /\ d.domain_id = "" /\ d.key = "" /\ d.location_id = "" /\ d.guid = ""
        /\ (lastOp = "Delete" /\ ~Succeeded) => d.id # ""

C10_Witness ==
    /\ lastOp = "Delete"
    /\ ~Succeeded
    /\ lastRes.err = NoErr
    /\ prev.id = "guid-1"
    /\ d.id = "guid-1"

\* C3: a resource that was created (and possibly updated) and then read,
\* imported by its ID and read, has every attribute at the value it had in
\* the state held before the import.
C3_ImportRoundTrips ==
    (/\ lastOp = "Read"
     /\ held.importing
     /\ held.origin = "create"
     /\ held.refreshed
     /\ lastRes.err = NoErr
     /\ Succeeded) => d = held.d

\* C7: the authorizer alone selects the credential header, and exactly one
\* credential is sent: NerdGraph sets only Api-Key, to the personal key;
\* ClassicV2 sets only X-Api-Key, to the admin key; InsightsInsertKey sets
\* only X-Insert-Key, to the insert key; PersonalAPIKeyCapableV2 sets Api-Key
\* to the personal key and Auth-Type to User-Api-Key when the personal key is
\* not empty, and otherwise only X-Api-Key to the admin key, so that the admin
\* key is not sent when a personal key is configured.
CredentialHeaders == {"Api-Key", "X-Api-Key", "X-Insert-Key"}

SetsOnly(names) ==
    /\ DOMAIN r = DOMAIN r0 \cup names
    /\ \A h \in DOMAIN r0 \ names : r[h] = r0[h]

C7_OneCredentialByEndpointType ==
    authorizer # "none" =>
        /\ Cardinality(DOMAIN r \cap CredentialHeaders) = 1
        /\ authorizer = "NerdGraph" =>
              SetsOnly({"Api-Key"}) /\ r["Api-Key"] = c.PersonalAPIKey
        /\ authorizer = "ClassicV2" =>
              SetsOnly({"X-Api-Key"}) /\ r["X-Api-Key"] = c.AdminAPIKey
        /\ authorizer = "InsightsInsertKey" =>
              SetsOnly({"X-Insert-Key"}) /\ r["X-Insert-Key"] = c.InsightsInsertKey
        /\ (authorizer = "PersonalAPIKeyCapableV2" /\ c.PersonalAPIKey # "") =>
              /\ SetsOnly({"Api-Key", "Auth-Type"})
              /\ r["Api-Key"] = c.PersonalAPIKey
              /\ r["Auth-Type"] = "User-Api-Key"
              /\ "X-Api-Key" \notin DOMAIN r
        /\ (authorizer = "PersonalAPIKeyCapableV2" /\ c.PersonalAPIKey = "") =>
              SetsOnly({"X-Api-Key"}) /\ r["X-Api-Key"] = c.AdminAPIKey

C7_Witness ==
    /\ authorizer = "PersonalAPIKeyCapableV2"
    /\ c.PersonalAPIKey = "key-1"
    /\ c.AdminAPIKey = "key-2"
    /\ "Content-Type" \in DOMAIN r0
    /\ "Api-Key" \in DOMAIN r

\* C2: when the configuration's two rules have the same
\* target_data_partition in the same account, the apply fails with an error
\* naming DUPLICATE_DATA_PARTITION_RULE_NAME, whichever create reaches the
\* service first, and no two rules of an account ever have the same name.
SameName ==
    /\ dpConfig["foo"].account_id = dpConfig["bar"].account_id
    /\ dpConfig["foo"].target_data_partition = dpConfig["bar"].target_data_partition

Applied == \A res \in DPResources : dpState[res].applied

ReportsDuplicate(res) ==
    \E i \in 1..Len(dpDiags[res]) :
        /\ dpDiags[res][i].Severity = "Error"
        /\ dpDiags[res][i].Summary = "DUPLICATE_DATA_PARTITION_RULE_NAME"

C2_DuplicateNameRejected ==
    /\ (Applied /\ SameName) => \E res \in DPResources : ReportsDuplicate(res)
    /\ \A e1, e2 \in dpRules :
          (/\ e1.account_id = e2.account_id
           /\ e1.target_data_partition = e2.target_data_partition) => e1 = e2

C2_Witness ==
    /\ Applied
    /\ SameName
    /\ dpState["bar"].id # ""
    /\ ReportsDuplicate("foo")

====
